---- MODULE Spec2Model ----
(***************************************************************************)
(* A model of the formlet client: the dispatch pipeline                    *)
(* (FormletClient.dispatch, util.error) and the convenience operations     *)
(* that funnel into it.                                                    *)
(*                                                                         *)
(* A dispatch call is a chain of promise callbacks.  The model keeps one   *)
(* record per call in flight and moves it through the chain:               *)
(*   Dispatch      builds and serializes the envelope, calls nodeFetch     *)
(*   FetchResolve  the first .then(): statusCode = res.status; res.json()  *)
(*   FetchReject   nodeFetch rejected: the .catch() classifies the error   *)
(*   JsonResolve   the second .then(): status check, error construction,   *)
(*                 and the .catch() for whatever it throws                 *)
(*   JsonReject    res.json() rejected: the .catch() classifies the error  *)
(* The transport (node-fetch-abort) is the environment: it is invoked,     *)
(* and later answers with a status, a decoded body or an error.            *)
(***************************************************************************)
EXTENDS Integers, Sequences, FiniteSets, TLC

VARIABLES
  inflight,     \* the dispatch calls whose promise is still pending
  last,         \* the call that settled most recently (or NoCall)
  nCalls,       \* public calls made so far
  nSerialized,  \* dispatch calls whose envelope serialized
  fetchCount,   \* invocations of nodeFetch (the transport spy)
  variant,      \* the revision of the client in use: "entry" or "meta"
  scope,        \* the wrapper namespace() or formlet() returned last
  older,        \* a wrapper returned earlier that the caller kept
  client,       \* the client object: its configuration and its own fields
  callerObj,    \* the payload object the caller owns and passes to operations
  apiCache,     \* the module's cache of clients, by name (src/index.js)
  made,         \* clients constructed so far
  processEnv,   \* process.env.FORMLET_KEY
  instanceCall  \* the instance() call made last and what came of it

\* The state of the instance() factory.
factory == <<apiCache, made, processEnv, instanceCall>>

vars ==
  <<inflight, last, nCalls, nSerialized, fetchCount, variant, scope, older, client,
    callerObj, factory>>

\* Bounds of the model.
MaxCalls == 2
MaxInFlight == 2

(***************************************************************************)
(* JavaScript values as they appear in a decoded response.                 *)
(*   t : the kind of value, v : its text (strings, object tags),           *)
(*   n : its number.  A field that is absent reads as undefined.           *)
(***************************************************************************)
Undef == [t |-> "undefined", v |-> "", n |-> 0]
Null == [t |-> "null", v |-> "", n |-> 0]
Str(s) == [t |-> "string", v |-> s, n |-> 0]
Num(k) == [t |-> "number", v |-> "", n |-> k]
NaN == [t |-> "number", v |-> "NaN", n |-> 0]
Obj(tag) == [t |-> "object", v |-> tag, n |-> 0]

\* JavaScript truthiness (the `x || y`, `if (x)` and `!x` tests of the code).
Truthy(x) ==
  CASE x.t = "undefined" -> FALSE
    [] x.t = "null" -> FALSE
    [] x.t = "string" -> x.v # ""
    [] x.t = "number" -> x.v # "NaN" /\ x.n # 0
    [] x.t = "boolean" -> x.v = "true"
    [] OTHER -> TRUE

\* x || y
OrElse(x, y) == IF Truthy(x) THEN x ELSE y

\* Decimal strings the model's responses carry, with their values.
DecimalValue == ("404" :> 404) @@ ("503" :> 503)

\* parseInt(x, 10) of a number or a string.
ParseInt(x) ==
  CASE x.t = "number" -> x
    [] x.t = "string" /\ x.v \in DOMAIN DecimalValue -> Num(DecimalValue[x.v])
    [] OTHER -> NaN

(***************************************************************************)
(* The value of the `error` field of a response body: absent, null, or an  *)
(* object.  An object is either the backend's nested error                 *)
(* {code, message, status, error} or a field-error mapping, which has none *)
(* of these fields and is identified by its tag.                           *)
(***************************************************************************)
ErrVal(t, code, message, status, error, tag) ==
  [t |-> t, code |-> code, message |-> message, status |-> status,
   error |-> error, tag |-> tag]
UndefErr == ErrVal("undefined", Undef, Undef, Undef, Undef, "")
NullErr == ErrVal("null", Undef, Undef, Undef, Undef, "")
EmptyObj == ErrVal("object", Undef, Undef, Undef, Undef, "")
FieldMap(tag) == ErrVal("object", Undef, Undef, Undef, Undef, tag)
NestedErr(code, message, status, error) ==
  ErrVal("object", code, message, status, error, "")

TruthyErr(e) == e.t = "object"

(***************************************************************************)
(* A decoded response body.  shape "object" is a JSON object with the      *)
(* fields below; "null" is the JSON value null; "other" is a JSON number,  *)
(* string, boolean or array, on which every field reads as undefined.      *)
(***************************************************************************)
Body(shape, type, result, meta, code, message, error) ==
  [shape |-> shape, type |-> type, result |-> result, meta |-> meta,
   code |-> code, message |-> message, error |-> error]
NoBody == Body("none", Undef, Undef, Undef, Undef, Undef, UndefErr)
NullBody == Body("null", Undef, Undef, Undef, Undef, Undef, UndefErr)
OtherBody == Body("other", Undef, Undef, Undef, Undef, Undef, UndefErr)

(***************************************************************************)
(* Error objects.  code, statusCode, ns, fields, data.action and source    *)
(* are the properties the client sets; name and type are those of the      *)
(* error the transport or the runtime raised.                              *)
(***************************************************************************)
NoSource == [name |-> "", message |-> "", type |-> ""]
SourceOf(e) == [name |-> e.name, message |-> e.message, type |-> e.type]

MkError(name, message, type) ==
  [name |-> name, message |-> message, type |-> type, code |-> Undef,
   statusCode |-> Undef, ns |-> "", fields |-> UndefErr, action |-> Undef,
   source |-> NoSource]
NoError == MkError("", "", "")

\* What the transport and the runtime raise.
RequestTimeout == MkError("FetchError", "network timeout", "request-timeout")
NetworkError == MkError("FetchError", "request failed", "system")
PlainError == MkError("Error", "socket hang up", "")
JsonSyntaxError == MkError("SyntaxError", "Unexpected token < in JSON", "")
NullTypeError == MkError("TypeError", "Cannot read property of null", "")

\* util.error(code, message, status) with a code that is not an Error.
UtilErrorStatus(status) ==
  IF status.t \in {"number", "string"} THEN ParseInt(status) ELSE Undef
UtilError(code, message, status) ==
  [MkError("Error",
           IF Truthy(message) THEN message.v ELSE "An unexpected error occurred",
           "")
   EXCEPT !.code = OrElse(code, Str("GLOBAL.ERROR")),
          !.statusCode = UtilErrorStatus(status)]

(***************************************************************************)
(* Values the caller passes.  Payload fields hold strings as sequences of  *)
(* characters (s), arrays as sequences of strings (l).                     *)
(***************************************************************************)
PUndef == [t |-> "undefined", s |-> <<>>, l |-> <<>>]
PNull == [t |-> "null", s |-> <<>>, l |-> <<>>]
PStr(s) == [t |-> "string", s |-> s, l |-> <<>>]
PNum(s) == [t |-> "number", s |-> s, l |-> <<>>]
PArr(l) == [t |-> "array", s |-> <<>>, l |-> l]

\* typeof x
TypeOf(x) == IF x.t \in {"null", "array"} THEN "object" ELSE x.t

\* Truthiness of a payload field.
PTruthy(x) ==
  CASE x.t \in {"undefined", "null"} -> FALSE
    [] x.t = "string" -> x.s # <<>>
    [] x.t = "number" -> x.s # <<"0">>
    [] OTHER -> TRUE

\* A filter, a meta or another opaque argument.
Arg(t, tag, circular) == [t |-> t, tag |-> tag, circular |-> circular]
ArgUndef == Arg("undefined", "", FALSE)
ArgNull == Arg("null", "", FALSE)
ArgObj(tag) == Arg("object", tag, FALSE)
ArgCircular(tag) == Arg("object", tag, TRUE)
ArgStr(tag) == Arg("string", tag, FALSE)

\* typeof x === 'object' && x (an array is an object too)
IsObject(x) == x.t \in {"object", "array"}

\* A payload argument: an object with the fields the client reads, or a value
\* that is no object (t says which).  circular: the object refers to itself.
\* filter, meta and payload are the properties request() of the meta revision
\* reads from a payload of the form {payload, filter, meta}.
Fields(t, namespace, formlet, id, created_by, updated_by, deleted_by) ==
  [t |-> t, namespace |-> namespace, formlet |-> formlet, id |-> id,
   created_by |-> created_by, updated_by |-> updated_by, deleted_by |-> deleted_by]
NoFields == Fields("undefined", PUndef, PUndef, PUndef, PUndef, PUndef, PUndef)
Payload(t, circular, namespace, formlet, id, created_by, updated_by, deleted_by) ==
  [t |-> t, circular |-> circular, namespace |-> namespace, formlet |-> formlet,
   id |-> id, created_by |-> created_by, updated_by |-> updated_by,
   deleted_by |-> deleted_by, filter |-> ArgUndef, meta |-> ArgUndef,
   payload |-> NoFields]
EmptyPayload == Payload("object", FALSE, PUndef, PUndef, PUndef, PUndef, PUndef, PUndef)
NonObject(t) == [EmptyPayload EXCEPT !.t = t]
CircularPayload == [EmptyPayload EXCEPT !.circular = TRUE]
ArrayPayload == [EmptyPayload EXCEPT !.t = "array"]

(***************************************************************************)
(* dispatch, lines 232-249: the envelope and its serialization.            *)
(***************************************************************************)
NoEnvelope == [type |-> "", payload |-> NonObject("undefined"),
               filter |-> ArgUndef, meta |-> ArgUndef]

\* bodyPayload = {type: action, payload: {}}, then payload, filter and meta
\* when each is an object.
BodyPayload(action, payload, filter, meta) ==
  [type |-> action,
   payload |-> IF IsObject(payload) THEN payload ELSE EmptyPayload,
   filter |-> IF IsObject(filter) THEN filter ELSE ArgUndef,
   meta |-> IF IsObject(meta) THEN meta ELSE ArgUndef]

\* Serialization that looks at the payload alone.
SerializesPayloadOnly(env) == ~env.payload.circular

\* JSON.stringify(bodyPayload) throws on a circular structure.
Serializes(env) ==
  ~(\/ env.payload.circular
    \/ env.payload.filter.circular
    \/ env.payload.meta.circular
    \/ env.filter.circular
    \/ env.meta.circular)

\* The error of line 248.
DataInvalid == UtilError(Str("DATA.INVALID"), Str("The requested payload is not valid"), Undef)

(***************************************************************************)
(* dispatch, lines 256-278: the second .then().  The result is what the    *)
(* callback returns (ok) or throws.                                        *)
(***************************************************************************)
Returned(body) == [ok |-> TRUE, value |-> body, err |-> NoError]
Thrown(err) == [ok |-> FALSE, value |-> NoBody, err |-> err]

\* Line 263 as an earlier revision had it (resultData.error && resultData.code):
\* the FIELD.INVALID branch is taken only when the body carries an error value.
IsFieldInvalidNeedsError(resultData) ==
  TruthyErr(resultData.error) /\ resultData.code = Str("FIELD.INVALID")

\* Line 263 looking for the code under `error` as well.
IsFieldInvalidNested(resultData) ==
  \/ resultData.code = Str("FIELD.INVALID")
  \/ resultData.error.code = Str("FIELD.INVALID")

\* Lines 257-262: a 2xx response.
Success(resultData) ==
  IF Truthy(resultData.type) THEN [resultData EXCEPT !.type = Undef]
  ELSE resultData

\* Lines 263-269: the FIELD.INVALID error.
FieldInvalid(resultData, statusCode) ==
  [UtilError(resultData.code, resultData.message, Num(statusCode))
   EXCEPT !.fields = resultData.error, !.ns = "FORMLET"]

\* Lines 270-278: the backend error.
BackendError(resultData, action) ==
  LET errData == IF TruthyErr(resultData.error) THEN resultData.error ELSE EmptyObj
      msg == OrElse(errData.message, Str("Could not contact formlet servers"))
      status == OrElse(errData.status, Num(400))
      code == OrElse(errData.code, Str("GLOBAL.ERROR"))
  IN [UtilError(code, msg, status) EXCEPT !.ns = "FORMLET", !.action = Str(action)]

\* Line 263: typeof resultData.error && resultData.code === 'FIELD.INVALID'.
\* typeof yields a non-empty string, so the test is the one on code.
IsFieldInvalid(resultData) == resultData.code = Str("FIELD.INVALID")

OnBody(resultData, statusCode, action) ==
  IF resultData.shape = "null" THEN Thrown(NullTypeError)
  ELSE IF statusCode >= 200 /\ statusCode <= 299 THEN Returned(Success(resultData))
  ELSE IF IsFieldInvalid(resultData) THEN Thrown(FieldInvalid(resultData, statusCode))
  ELSE Thrown(BackendError(resultData, action))

(***************************************************************************)
(* dispatch, lines 279-306: the .catch().  statusCode is 0 while no        *)
(* response has been received (the variable is still undefined).           *)
(***************************************************************************)
\* Lines 281-300 without the SyntaxError test of line 285.
ReclassifyNoSyntaxError(e, statusCode, action) ==
  LET c == IF e.type = "request-timeout"
           THEN [code |-> "GLOBAL.TIMEOUT", msg |-> "Request timed out", status |-> 400]
           ELSE [code |-> "GLOBAL.ERROR", msg |-> "Could not contact the server",
                 status |-> IF statusCode # 0 THEN statusCode ELSE 400]
  IN [UtilError(Str(c.code), Str(c.msg), Num(c.status))
      EXCEPT !.source = SourceOf(e), !.action = Str(action)]

\* Lines 281-300 taking the timeout branch only while no response was received.
ReclassifyTimeoutBeforeStatus(e, statusCode, action) ==
  LET c == CASE e.name = "SyntaxError" ->
                  [code |-> "GLOBAL.RESPONSE",
                   msg |-> "Request data could not be processed.", status |-> 400]
             [] e.type = "request-timeout" /\ statusCode = 0 ->
                  [code |-> "GLOBAL.TIMEOUT", msg |-> "Request timed out",
                   status |-> 400]
             [] OTHER ->
                  [code |-> "GLOBAL.ERROR", msg |-> "Could not contact the server",
                   status |-> IF statusCode # 0 THEN statusCode ELSE 400]
  IN [UtilError(Str(c.code), Str(c.msg), Num(c.status))
      EXCEPT !.source = SourceOf(e), !.action = Str(action)]

\* Lines 281-300 with line 297 dropped: the status stays 400.
ReclassifyStatus400(e, statusCode, action) ==
  LET c == CASE e.name = "SyntaxError" ->
                  [code |-> "GLOBAL.RESPONSE",
                   msg |-> "Request data could not be processed.", status |-> 400]
             [] e.type = "request-timeout" ->
                  [code |-> "GLOBAL.TIMEOUT", msg |-> "Request timed out",
                   status |-> 400]
             [] OTHER ->
                  [code |-> "GLOBAL.ERROR", msg |-> "Could not contact the server",
                   status |-> 400]
  IN [UtilError(Str(c.code), Str(c.msg), Num(c.status))
      EXCEPT !.source = SourceOf(e), !.action = Str(action)]

IsTagged(e) == e.ns \in {"GLOBAL", "FORMLET"}

Reclassify(e, statusCode, action) ==
  LET c == CASE e.name = "" -> [code |-> "GLOBAL.", msg |-> "", status |-> 400]
             [] e.name = "SyntaxError" ->
                  [code |-> "GLOBAL.RESPONSE",
                   msg |-> "Request data could not be processed.", status |-> 400]
             [] e.type = "request-timeout" ->
                  [code |-> "GLOBAL.TIMEOUT", msg |-> "Request timed out",
                   status |-> 400]
             [] OTHER ->
                  [code |-> "GLOBAL.ERROR", msg |-> "Could not contact the server",
                   status |-> IF statusCode # 0 THEN statusCode ELSE 400]
  IN [UtilError(Str(c.code), Str(c.msg), Num(c.status))
      EXCEPT !.source = SourceOf(e), !.action = Str(action)]

\* Lines 279-306 without the pass-through of line 280.
OnErrorAlwaysReclassify(e, statusCode, action) == Reclassify(e, statusCode, action)

OnError(e, statusCode, action) ==
  IF IsTagged(e) THEN e ELSE Reclassify(e, statusCode, action)

(***************************************************************************)
(* The object an operation is bound to: the client itself, or the context  *)
(* that namespace() (entry revision) or formlet() (meta revision) builds.  *)
(*   ns, formlet     this.ns, this._formlet (PUndef when not set)          *)
(*   includePayload  this._payload                                         *)
(***************************************************************************)
Ctx(kind, ns, formlet, includePayload) ==
  [kind |-> kind, ns |-> ns, formlet |-> formlet, includePayload |-> includePayload]
ClientCtx == Ctx("client", PUndef, PUndef, FALSE)

\* The client after construction: this[cfg] (key and url), and no ns, _formlet
\* or _payload of its own.
TheClient == [ctx |-> ClientCtx, key |-> "key", url |-> "https://formlet.io/dispatch"]
NoScope == Ctx("none", PUndef, PUndef, FALSE)

(***************************************************************************)
(* What an operation resolves to.  kind "value": the bare r.result;        *)
(* "object": an object with the keys listed; "body": the response body     *)
(* itself with the listed keys added to its own.                           *)
(***************************************************************************)
Shape(kind, keys, result, meta, payload, filter, reqMeta) ==
  [kind |-> kind, keys |-> keys, result |-> result, meta |-> meta,
   payload |-> payload, filter |-> filter, reqMeta |-> reqMeta]
NoShape == Shape("none", {}, Undef, Undef, NonObject("undefined"), ArgUndef, ArgUndef)

(***************************************************************************)
(* A call.  pc is where its promise chain stands: "fetch" (nodeFetch is    *)
(* pending), "json" (res.json() is pending), "done" (settled).             *)
(*   op         "dispatch" or the operation called                         *)
(*   ctx, arg   the object the operation was bound to, the payload passed  *)
(*   payload, filter, meta  the arguments dispatch received                *)
(*   sent       the envelope handed to nodeFetch (NoEnvelope when none)    *)
(*   statusCode the local of line 250, 0 while undefined                   *)
(*   resStatus  res.status of the response this call received, 0 for none  *)
(*   body       the decoded body res.json() delivered                      *)
(*   thrown     the error that reached the .catch()                        *)
(*   state      "pending", "resolved" (with value), "rejected" (error) or  *)
(*              "threw" (the call raised error synchronously)              *)
(*   shaped     what the operation's own .then() made of value             *)
(***************************************************************************)
Call(op, action, payload, filter, meta) ==
  [op |-> op, ctx |-> ClientCtx, arg |-> payload, action |-> action,
   payload |-> payload, filter |-> filter, meta |-> meta, sent |-> NoEnvelope,
   pc |-> "fetch", statusCode |-> 0, resStatus |-> 0, body |-> NoBody,
   thrown |-> NoError,
   state |-> "pending", value |-> NoBody, error |-> NoError, shaped |-> NoShape]
NoCall == [Call("", "", NonObject("undefined"), ArgUndef, ArgUndef)
           EXCEPT !.pc = "none", !.state = "none"]

Rejected(c, e) == [c EXCEPT !.pc = "done", !.state = "rejected", !.error = e]

\* The .catch() of lines 279-306 applied to an error raised in call c.
Caught(c, e) == Rejected([c EXCEPT !.thrown = e], OnError(e, c.statusCode, c.action))

RemoveAt(q, i) == [j \in 1..(Len(q) - 1) |-> IF j < i THEN q[j] ELSE q[j + 1]]

(***************************************************************************)
(* Strings of payload fields.                                              *)
(***************************************************************************)
\* s.indexOf(p) === 0
StartsWith(s, p) == Len(p) <= Len(s) /\ SubSeq(s, 1, Len(p)) = p

\* s.split(sep)
RECURSIVE Split(_, _)
Split(s, sep) ==
  IF \A i \in 1..Len(s) : s[i] # sep THEN <<s>>
  ELSE LET k == CHOOSE i \in 1..Len(s) : s[i] = sep /\ \A j \in 1..(i - 1) : s[j] # sep
       IN <<SubSeq(s, 1, k - 1)>> \o Split(SubSeq(s, k + 1, Len(s)), sep)

AllFormlets == <<"_", "a", "l", "l">>

\* prefix + '.' + formlet
Concat(prefix, formlet) == PStr(prefix.s \o <<".">> \o formlet.s)

\* if (typeof payload !== 'object' || !payload) payload = {};
ObjectOr(arg) == IF IsObject(arg) THEN arg ELSE EmptyPayload

DataRequired(message) == UtilError(Str("DATA.REQUIRED"), Str(message), Undef)

\* What an operation has done when it reaches dispatch or returns early:
\* err is the rejection it returned (NoError when it went on to dispatch);
\* obj is the payload object it worked on, as it left it.
Normalized(err, action, obj, payload, filter, meta) ==
  [err |-> err, action |-> action, obj |-> obj, payload |-> payload,
   filter |-> filter, meta |-> meta]

(***************************************************************************)
(* The entry revision (src/unnamed/part_000): every operation validates    *)
(* its payload and calls dispatch(action, payload, filter).                *)
(***************************************************************************)
\* Line 52 filling in the namespace only when the payload has none.
WithNamespaceIfAbsent(ctx, payload) ==
  IF TypeOf(ctx.ns) = "string" /\ TypeOf(payload.namespace) = "undefined"
  THEN [payload EXCEPT !.namespace = ctx.ns] ELSE payload

\* if (typeof this.ns === 'string') payload.namespace = this.ns;
WithNamespace(ctx, payload) ==
  IF TypeOf(ctx.ns) = "string" THEN [payload EXCEPT !.namespace = ctx.ns] ELSE payload

\* typeof x !== 'string' || !x
NotAString(x) == TypeOf(x) # "string" \/ ~PTruthy(x)

Create(ctx, arg, filter) ==
  LET p == WithNamespace(ctx, ObjectOr(arg))
      err == IF TypeOf(p.namespace) # "string"
               THEN DataRequired("Missing namespace information")
             ELSE IF TypeOf(p.formlet) # "string"
               THEN DataRequired("Missing formlet information")
             ELSE IF TypeOf(p.created_by) # "string"
               THEN DataRequired("Missing created by information")
             ELSE NoError
  IN Normalized(err, "entry.create", p, p, ArgUndef, ArgUndef)

Update(ctx, arg, filter) ==
  LET p == WithNamespace(ctx, ObjectOr(arg))
      err == IF NotAString(p.namespace)
               THEN DataRequired("Missing namespace information")
             ELSE IF NotAString(p.id) THEN DataRequired("Missing entry.id")
             ELSE IF TypeOf(p.updated_by) = "undefined"
               THEN DataRequired("Missing updated by information")
             ELSE NoError
  IN Normalized(err, "entry.update", p, p, filter, ArgUndef)

Read(ctx, arg, filter) ==
  LET p == WithNamespace(ctx, ObjectOr(arg))
      err == IF NotAString(p.namespace)
               THEN DataRequired("Missing namespace information")
             ELSE IF NotAString(p.id) THEN DataRequired("Missing entry.id")
             ELSE NoError
  IN Normalized(err, "entry.read", p, p, filter, ArgUndef)

\* Lines 128-132 of find.
FindFormlet(formlet) ==
  IF TypeOf(formlet) = "string" THEN PArr(Split(formlet.s, " "))
  ELSE IF TypeOf(formlet) \in {"object", "undefined"} \/ ~PTruthy(formlet)
    THEN PStr(AllFormlets)
  ELSE formlet

Find(ctx, arg, filter) ==
  LET p == WithNamespace(ctx, ObjectOr(arg))
      err == IF NotAString(p.namespace)
               THEN DataRequired("Missing namespace information")
             ELSE NoError
      q == IF err = NoError THEN [p EXCEPT !.formlet = FindFormlet(p.formlet)] ELSE p
  IN Normalized(err, "entry.find", q, q, filter, ArgUndef)

Delete(ctx, arg, filter) ==
  LET p == WithNamespace(ctx, ObjectOr(arg))
      early == IF NotAString(p.namespace)
                 THEN DataRequired("Missing namespace information")
               ELSE IF NotAString(p.id) THEN DataRequired("Missing entry information")
               ELSE NoError
      q == IF early = NoError /\ TypeOf(p.deleted_by) = "string"
           THEN [p EXCEPT !.updated_by = p.deleted_by] ELSE p
      err == IF early # NoError THEN early
             ELSE IF TypeOf(q.updated_by) = "undefined"
               THEN DataRequired("Missing deleted by information")
             ELSE NoError
  IN Normalized(err, "entry.delete", q, q, filter, ArgUndef)

History(ctx, arg, filter) ==
  LET p == WithNamespace(ctx, ObjectOr(arg))
      err == IF NotAString(p.namespace)
               THEN DataRequired("Missing namespace information")
             ELSE IF NotAString(p.id) THEN DataRequired("Missing entry information")
             ELSE NoError
  IN Normalized(err, "entry.history", p, p, filter, ArgUndef)

\* The keys of a response body (a JSON object holds no undefined value).
BodyKeys(r) ==
  {k \in {"type", "result", "meta", "code", "message"} : r[k] # Undef}
    \cup (IF r.error # UndefErr THEN {"error"} ELSE {})

\* The .then() of each operation of the entry revision.
ShapeEntry(op, ctx, payload, r) ==
  CASE op \in {"create", "update", "read"} ->
         IF ~ctx.includePayload
         THEN Shape("value", {}, r.result, Undef, NonObject("undefined"), ArgUndef, ArgUndef)
         ELSE Shape("body", BodyKeys(r) \cup {"payload"}, r.result, r.meta, payload,
                    ArgUndef, ArgUndef)
    [] op \in {"find", "history"} ->
         IF ~ctx.includePayload
         THEN Shape("object", {"result", "meta"}, r.result, r.meta,
                    NonObject("undefined"), ArgUndef, ArgUndef)
         ELSE Shape("object", {"result", "meta", "payload"}, r.result, r.meta, payload,
                    ArgUndef, ArgUndef)
    [] OTHER ->
         IF ~ctx.includePayload
         THEN Shape("value", {}, OrElse(r.result, Obj("{}")), Undef,
                    NonObject("undefined"), ArgUndef, ArgUndef)
         ELSE Shape("object", {"result", "payload"}, OrElse(r.result, Obj("{}")), Undef,
                    payload, ArgUndef, ArgUndef)

(***************************************************************************)
(* The meta revision (src/lib/util.js, lines 76-158 and 312-368): every    *)
(* operation is _setFormlet followed by request().                         *)
(***************************************************************************)
MetaAction(op) == "entity." \o op

\* _setFormlet(ctx, payload)
SetFormlet(ctx, payload) ==
  IF TypeOf(ctx.formlet) = "undefined" THEN payload
  ELSE IF TypeOf(payload.formlet) = "undefined"
    THEN [payload EXCEPT !.formlet = ctx.formlet]
  ELSE IF TypeOf(payload.formlet) = "string"
          /\ ~StartsWith(payload.formlet.s, ctx.formlet.s)
    THEN [payload EXCEPT !.formlet = Concat(ctx.formlet, payload.formlet)]
  ELSE payload

\* Lines 327-336 without the indexOf test of lines 331-332.
RequestFormletAlwaysConcat(ctx, formlet) ==
  IF TypeOf(ctx.formlet) # "string" THEN formlet
  ELSE IF TypeOf(formlet) # "string" \/ ~PTruthy(formlet) THEN ctx.formlet
  ELSE Concat(ctx.formlet, formlet)

\* Lines 327-336 of request().
RequestFormlet(ctx, formlet) ==
  IF TypeOf(ctx.formlet) # "string" THEN formlet
  ELSE IF TypeOf(formlet) # "string" \/ ~PTruthy(formlet) THEN ctx.formlet
  ELSE IF ~StartsWith(formlet.s, ctx.formlet.s) THEN Concat(ctx.formlet, formlet)
  ELSE formlet

\* typeof x === 'object' of an argument (null included)
ArgIsObjectType(x) == x.t \in {"object", "null"}

\* The payload {payload: {...}} holds, as an object of its own.
Inner(f) ==
  Payload("object", FALSE, f.namespace, f.formlet, f.id, f.created_by,
          f.updated_by, f.deleted_by)
FieldsOf(p) ==
  Fields("object", p.namespace, p.formlet, p.id, p.created_by, p.updated_by,
         p.deleted_by)

\* request(action, withPayload, args), lines 313-338: up to dispatch.  obj is
\* args[0] as the operation left it.
Request(ctx, action, obj, filterArg, metaArg) ==
  LET outer == ObjectOr(obj)
      filter == IF filterArg.t = "undefined" /\ ArgIsObjectType(outer.filter)
                THEN outer.filter ELSE filterArg
      meta == IF metaArg.t = "undefined" /\ ArgIsObjectType(outer.meta)
              THEN outer.meta ELSE metaArg
      wrapped == outer.payload.t = "object"
      p == IF wrapped THEN Inner(outer.payload) ELSE outer
      q == [p EXCEPT !.formlet = RequestFormlet(ctx, p.formlet)]
  IN Normalized(NoError, action,
                IF wrapped THEN [outer EXCEPT !.payload = FieldsOf(q)] ELSE q,
                q, filter, meta)

\* create, update, read, find, delete and history of the meta revision.
MetaOperation(ctx, op, arg, filter, meta) ==
  LET obj == IF IsObject(arg) THEN SetFormlet(ctx, arg) ELSE arg
  IN Request(ctx, MetaAction(op), obj, filter, meta)

\* The .then() of request(), lines 338-354.
ShapeRequest(ctx, payload, filter, meta, r) ==
  IF ~ctx.includePayload
  THEN IF r.meta # Undef
       THEN Shape("object", {"result", "meta"}, r.result, r.meta,
                  NonObject("undefined"), ArgUndef, ArgUndef)
       ELSE Shape("value", {}, r.result, Undef, NonObject("undefined"),
                  ArgUndef, ArgUndef)
  ELSE Shape("body", BodyKeys(r) \cup {"request"}, r.result, r.meta, payload, filter,
             IF meta.t = "object" \/ (meta.t = "string" /\ meta.tag # "")
             THEN meta ELSE ArgObj("{}"))

(***************************************************************************)
(* Both revisions.                                                         *)
(***************************************************************************)
Operations == {"create", "read", "update", "delete", "find", "history"}

\* The methods the object an operation is called on has: the client has all
\* six; namespace() binds all six (part_000, lines 206-213); formlet() binds
\* `cerate` and the other five (util.js, lines 174-179).
HasMethod(ctx, op) ==
  CASE ctx.kind = "formlet" -> op \in Operations \ {"create"}
    [] OTHER -> op \in Operations

NotAFunction == MkError("TypeError", "ctx.create is not a function", "")

Normalize(op, ctx, arg, filter, meta) ==
  IF variant = "meta" THEN MetaOperation(ctx, op, arg, filter, meta)
  ELSE CASE op = "create" -> Create(ctx, arg, filter)
         [] op = "update" -> Update(ctx, arg, filter)
         [] op = "read" -> Read(ctx, arg, filter)
         [] op = "find" -> Find(ctx, arg, filter)
         [] op = "delete" -> Delete(ctx, arg, filter)
         [] OTHER -> History(ctx, arg, filter)

\* The promise of call c resolves with the body dispatch delivers; an
\* operation's own .then() shapes it.
Resolved(c, value) ==
  [c EXCEPT !.pc = "done", !.state = "resolved", !.value = value,
            !.shaped = IF c.op \in {"dispatch", "sync"} THEN NoShape
                       ELSE IF c.op = "getFields"
                         THEN Shape("value", {}, value.result, Undef,
                                    NonObject("undefined"), ArgUndef, ArgUndef)
                       ELSE IF variant = "meta"
                         THEN ShapeRequest(c.ctx, c.payload, c.filter, c.meta, value)
                       ELSE ShapeEntry(c.op, c.ctx, c.payload, value)]

(***************************************************************************)
(* What the environment supplies.                                          *)
(***************************************************************************)
Actions == {"entry.read", "api.sync"}

\* payload, filter, meta of a direct dispatch call
DispatchArgs ==
  { <<EmptyPayload, ArgUndef, ArgUndef>>,
    <<CircularPayload, ArgUndef, ArgUndef>>,
    <<EmptyPayload, ArgCircular("f"), ArgUndef>>,
    <<EmptyPayload, ArgObj("f"), ArgCircular("m")>> }

\* payloads that are no mapping: none, null (with a null filter), a string,
\* an array
OtherPayloads ==
  { <<NonObject("undefined"), ArgUndef, ArgUndef>>,
    <<NonObject("null"), ArgNull, ArgUndef>>,
    <<NonObject("string"), ArgUndef, ArgUndef>>,
    <<ArrayPayload, ArgUndef, ArgUndef>> }

\* The action argument of dispatch is any string the caller passes.
AnyActions == Actions \cup {""}

Statuses == {200, 299, 422}

FieldErrors == FieldMap("email=required")

Bodies ==
  { Body("object", Str("entry.read"), Obj("R1"), Undef, Undef, Undef, UndefErr),
    Body("object", Str(""), Obj("R1"), Undef, Undef, Undef, UndefErr),
    Body("object", Undef, Obj("R1"), Obj("M1"), Undef, Undef, UndefErr),
    Body("object", Undef, Undef, Undef, Str("FIELD.INVALID"), Str("bad"), FieldErrors),
    Body("object", Undef, Undef, Undef, Str("FIELD.INVALID"), Undef, UndefErr),
    Body("object", Undef, Undef, Undef, Undef, Undef,
         NestedErr(Str("FIELD.INVALID"), Str("bad"), Undef, Obj("email=required"))),
    Body("object", Undef, Undef, Undef, Undef, Undef,
         NestedErr(Str("ENTRY.NOT_FOUND"), Str("Entry not found"), Num(404), Undef)),
    Body("object", Undef, Undef, Undef, Undef, Undef,
         NestedErr(Str("SERVER.BUSY"), Undef, Str("503"), Undef)),
    Body("object", Undef, Undef, Undef, Undef, Undef, UndefErr),
    NullBody,
    OtherBody }

\* Errors nodeFetch rejects with, and errors res.json() rejects with.
FetchErrors == {RequestTimeout, NetworkError, PlainError}
JsonErrors == {JsonSyntaxError, RequestTimeout, NetworkError}

\* Responses to the operations.
OpStatuses == {200, 422}
OpBodies ==
  { Body("object", Str("entry.read"), Obj("R1"), Undef, Undef, Undef, UndefErr),
    Body("object", Undef, Obj("R1"), Obj("M1"), Undef, Undef, UndefErr) }
OpErrors == {RequestTimeout}

\* Payload objects the caller builds.
NsName == PStr(<<"n", "s">>)
OtherNs == PStr(<<"o">>)
FormletName == PStr(<<"a">>)
TwoFormlets == PStr(<<"a", " ", "b">>)
WideFormlets == PStr(<<"a", " ", " ", "b">>)
NumberFormlet == PNum(<<"5">>)
EntryId == PStr(<<"1">>)
User == PStr(<<"u">>)
FullPayload == Payload("object", FALSE, NsName, FormletName, EntryId, User, User, PUndef)
CallerPayloads ==
  { FullPayload,
    [FullPayload EXCEPT !.namespace = PUndef],
    [FullPayload EXCEPT !.namespace = OtherNs, !.formlet = TwoFormlets],
    [FullPayload EXCEPT !.formlet = PUndef],
    [FullPayload EXCEPT !.id = PUndef, !.formlet = WideFormlets],
    [FullPayload EXCEPT !.created_by = PUndef, !.updated_by = PUndef,
                        !.deleted_by = User, !.formlet = NumberFormlet],
    [FullPayload EXCEPT !.created_by = PUndef, !.updated_by = PUndef],
    [EmptyPayload EXCEPT !.payload = FieldsOf(FullPayload), !.filter = ArgObj("pf")] }

\* payload, filter and meta arguments of an operation
OpArgs ==
  {<<p, ArgUndef, ArgUndef>> : p \in CallerPayloads}
    \cup { <<FullPayload, ArgObj("f"), ArgObj("m")>>,
           <<NonObject("undefined"), ArgUndef, ArgUndef>> }

\* Arguments of sync(data) and getFields(namespace, formlet, opt).
SyncData == {FullPayload, NonObject("undefined"), ArrayPayload}
FieldsOpts == {NonObject("undefined"), EmptyPayload}

\* Two names for two wrappers of one client, and the payloads passed to the
\* operations of the wrappers and of the client.
TwoNames == {NsName, OtherNs}
ScopedPayloads == {FullPayload, [FullPayload EXCEPT !.namespace = PUndef]}

\* Names and flags given to namespace() and formlet().
ScopeNames == {NsName, PStr(<<>>)}

(***************************************************************************)
(* The instance() factory of src/index.js and the constructor it calls.    *)
(* A value of the cache, and what instance() returns:                      *)
(*   t    "undefined", "null", "client", or "function" for what the cache  *)
(*        object inherits from Object.prototype                            *)
(*   id   which client it is (clients are numbered as they are made)       *)
(*   key, url   the client's configuration                                 *)
(***************************************************************************)
CacheValue(t, id, key, url) == [t |-> t, id |-> id, key |-> key, url |-> url]
NoValue == CacheValue("undefined", 0, "", "")
NullValue == CacheValue("null", 0, "", "")
ObjectFunction == CacheValue("function", 0, "", "")

\* The names instance() is called with.  apiCache is `{}`: reading the
\* property "constructor" of it gives Object.prototype.constructor.
CacheKeys == {"default", "a", "constructor"}
EmptyCache == [k \in CacheKeys |-> IF k = "constructor" THEN ObjectFunction ELSE NoValue]

\* An options argument: t is its type, hasKey whether it has a property `key`
\* of its own, hasUrl whether it has a `url`.
Options(t, hasKey, key, hasUrl, url) ==
  [t |-> t, hasKey |-> hasKey, key |-> key, hasUrl |-> hasUrl, url |-> url]
NoOptions == Options("undefined", FALSE, Undef, FALSE, "")

\* url.parse(u): protocol + '//' + host of the URLs the callers configure.
Origin(u) ==
  CASE u = "https://formlet.io" -> "https://formlet.io"
    [] u = "http://h:1/base?x=1" -> "http://h:1"
    [] OTHER -> "null//null"

\* new FormletClient(config), lines 44-62 of src/lib/util.js: the client, or
\* the error it throws.
ConfigRequired == "Formlet requires a configuration object in its constructor"
KeyRequired == "Formlet requires an API key to work"
FormletClient(config, envKey, id) ==
  IF config.t # "object"
  THEN [ok |-> FALSE, value |-> NoValue, error |-> ConfigRequired]
  ELSE LET key == IF config.hasKey THEN config.key ELSE envKey
           url == IF config.hasUrl THEN config.url ELSE "https://formlet.io"
       IN IF key.t # "string" \/ key.v = ""
          THEN [ok |-> FALSE, value |-> NoValue, error |-> KeyRequired]
          ELSE [ok |-> TRUE, error |-> "",
                value |-> CacheValue("client", id, key.v, Origin(url) \o "/dispatch")]

\* The first argument of instance(): nothing, a name, or an options object.
NameArg(t, s, o) == [t |-> t, s |-> s, o |-> o]
NoName == NameArg("undefined", "", NoOptions)

\* An instance() call: its arguments, the cache it found, and whether it
\* returned (value) or threw (error).
InstanceCall(name, opt, before, state, value, error) ==
  [name |-> name, opt |-> opt, before |-> before, state |-> state,
   value |-> value, error |-> error]
NoInstanceCall == InstanceCall(NoName, NoOptions, EmptyCache, "none", NoValue, "")

\* What the callers of instance() pass.
EnvKeys == {Undef, Str("envkey")}
OptionsGiven ==
  { NoOptions,
    Options("object", FALSE, Undef, FALSE, ""),
    Options("object", TRUE, Str("k1"), FALSE, ""),
    Options("object", TRUE, Str("k2"), TRUE, "http://h:1/base?x=1"),
    Options("object", TRUE, Str(""), FALSE, ""),
    Options("object", TRUE, Undef, FALSE, "") }
NamesGiven ==
  {NoName} \cup {NameArg("string", k, NoOptions) : k \in CacheKeys}
    \cup {NameArg("object", "", o) : o \in OptionsGiven \ {NoOptions}}

(***************************************************************************)
(* The actions.                                                            *)
(***************************************************************************)
InitClient ==
  /\ inflight = <<>>
  /\ last = NoCall
  /\ nCalls = 0
  /\ nSerialized = 0
  /\ fetchCount = 0
  /\ scope = NoScope
  /\ older = NoScope
  /\ client = TheClient
  /\ callerObj = EmptyPayload
  /\ apiCache = EmptyCache
  /\ made = 0
  /\ instanceCall = NoInstanceCall

\* No API key in the environment unless a specification says otherwise.
InitCommon == InitClient /\ processEnv = Undef

\* A client of the meta revision (src/lib/util.js).
Init == InitCommon /\ variant = "meta"

\* dispatch sharing the request of an identical call that is still in flight.
DispatchFromDedup(c) ==
  LET env == BodyPayload(c.action, c.payload, c.filter, c.meta)
      dup == \E j \in 1..Len(inflight) : inflight[j].sent = env
  IN /\ nSerialized' = nSerialized + (IF Serializes(env) THEN 1 ELSE 0)
     /\ IF Serializes(env)
        THEN /\ inflight' = Append(inflight, [c EXCEPT !.sent = env])
             /\ fetchCount' = fetchCount + (IF dup THEN 0 ELSE 1)
             /\ last' = NoCall
        ELSE /\ last' = Rejected(c, DataInvalid)
             /\ UNCHANGED <<inflight, fetchCount>>

\* dispatch, lines 232-252: the envelope, its serialization, nodeFetch.  c is
\* the call with the arguments dispatch received.  The caller, making a new
\* call, no longer looks at the outcome of the last one.
DispatchFrom(c) ==
  LET env == BodyPayload(c.action, c.payload, c.filter, c.meta)
  IN /\ nSerialized' = nSerialized + (IF Serializes(env) THEN 1 ELSE 0)
     /\ IF Serializes(env)
        THEN /\ inflight' = Append(inflight, [c EXCEPT !.sent = env])
             /\ fetchCount' = fetchCount + 1
             /\ last' = NoCall
        ELSE /\ last' = Rejected(c, DataInvalid)
             /\ UNCHANGED <<inflight, fetchCount>>

\* dispatch(action, payload, filter, meta) called on the client.
Dispatch(action, payload, filter, meta) ==
  /\ nCalls < MaxCalls
  /\ Len(inflight) < MaxInFlight
  /\ nCalls' = nCalls + 1
  /\ DispatchFrom(Call("dispatch", action, payload, filter, meta))
  /\ UNCHANGED <<factory, variant, older, client, scope, callerObj>>

\* Lines 253-255 with statusCode kept in one place for all the calls of the
\* client: the response of one call overwrites the status of the others.
FetchResolveShared(i, status) ==
  /\ i \in 1..Len(inflight)
  /\ inflight[i].pc = "fetch"
  /\ inflight' = [j \in 1..Len(inflight) |->
                    IF j = i
                    THEN [inflight[j] EXCEPT !.resStatus = status,
                                             !.statusCode = status, !.pc = "json"]
                    ELSE [inflight[j] EXCEPT !.statusCode = status]]
  /\ UNCHANGED <<last, nCalls, nSerialized, fetchCount,
               factory, variant, older, client, scope, callerObj>>

\* Lines 253-255: the response arrives; its body is being decoded.
FetchResolve(i, status) ==
  /\ i \in 1..Len(inflight)
  /\ inflight[i].pc = "fetch"
  /\ inflight' = [inflight EXCEPT ![i].resStatus = status,
                                  ![i].statusCode = status, ![i].pc = "json"]
  /\ UNCHANGED <<last, nCalls, nSerialized, fetchCount,
               factory, variant, older, client, scope, callerObj>>

\* nodeFetch rejects: both .then() are skipped, the .catch() runs.
FetchReject(i, e) ==
  /\ i \in 1..Len(inflight)
  /\ inflight[i].pc = "fetch"
  /\ last' = Caught(inflight[i], e)
  /\ inflight' = RemoveAt(inflight, i)
  /\ UNCHANGED <<nCalls, nSerialized, fetchCount,
               factory, variant, older, client, scope, callerObj>>

\* Lines 256-278 and, for what they throw, 279-306; then the .then() of the
\* operation that called dispatch.
JsonResolve(i, body) ==
  /\ i \in 1..Len(inflight)
  /\ inflight[i].pc = "json"
  /\ LET c == [inflight[i] EXCEPT !.body = body]
         r == OnBody(body, c.statusCode, c.action)
     IN last' = IF r.ok THEN Resolved(c, r.value) ELSE Caught(c, r.err)
  /\ inflight' = RemoveAt(inflight, i)
  /\ UNCHANGED <<nCalls, nSerialized, fetchCount,
               factory, variant, older, client, scope, callerObj>>

\* res.json() rejects: the second .then() is skipped, the .catch() runs.
JsonReject(i, e) ==
  /\ i \in 1..Len(inflight)
  /\ inflight[i].pc = "json"
  /\ last' = Caught(inflight[i], e)
  /\ inflight' = RemoveAt(inflight, i)
  /\ UNCHANGED <<nCalls, nSerialized, fetchCount,
               factory, variant, older, client, scope, callerObj>>

\* namespace() that sets ns and _payload on the client itself and hands out
\* a view of it.
NamespaceOnClient(ns, includePayload) ==
  /\ variant = "entry"
  /\ inflight = <<>>
  /\ ~NotAString(ns)
  /\ scope' = Ctx("namespace", ns, PUndef, includePayload)
  /\ scope' # scope
  /\ client' = [client EXCEPT !.ctx.ns = ns, !.ctx.includePayload = includePayload]
  /\ UNCHANGED <<inflight, last, nCalls, nSerialized, fetchCount,
               factory, variant, older, callerObj>>

\* namespace(ns, includePayload) of the entry revision (part_000, 197-215).
\* It throws, and nothing changes, unless ns is a non-empty string.
Namespace(ns, includePayload) ==
  /\ variant = "entry"
  /\ inflight = <<>>
  /\ ~NotAString(ns)
  /\ scope' = Ctx("namespace", ns, PUndef, includePayload)
  /\ scope' # scope
  /\ UNCHANGED <<inflight, last, nCalls, nSerialized, fetchCount,
               factory, variant, older, client, callerObj>>

\* formlet(formlet, includePayload) of the meta revision (util.js, 164-181).
Formlet(formlet, includePayload) ==
  /\ variant = "meta"
  /\ inflight = <<>>
  /\ ~NotAString(formlet)
  /\ scope' = Ctx("formlet", PUndef, formlet, includePayload)
  /\ scope' # scope
  /\ UNCHANGED <<inflight, last, nCalls, nSerialized, fetchCount,
               factory, variant, older, client, callerObj>>

\* The caller keeps the wrapper it was given, and may ask for another.
Keep ==
  /\ inflight = <<>>
  /\ scope # NoScope
  /\ older' = scope
  /\ older' # older
  /\ UNCHANGED <<inflight, last, nCalls, nSerialized, fetchCount,
               factory, variant, scope, client, callerObj>>

\* One of the six operations, called on the client or on the wrapper.  arg
\* is a payload object the caller has just built, the object it passed to
\* the operation before (callerObj, as that operation left it), or no
\* object.  The caller awaits each operation before it starts the next.
Operation(op, ctx, arg, filter, meta) ==
  /\ nCalls < MaxCalls
  /\ inflight = <<>>
  /\ ctx \in {client.ctx, scope, older} \ {NoScope}
  /\ nCalls' = nCalls + 1
  /\ IF ~HasMethod(ctx, op)
     THEN /\ last' = [Call(op, "", arg, filter, meta)
                      EXCEPT !.ctx = ctx, !.pc = "done", !.state = "threw",
                             !.error = NotAFunction]
          /\ UNCHANGED <<inflight, nSerialized, fetchCount, callerObj>>
     ELSE LET n == Normalize(op, ctx, arg, filter, meta)
              c == [Call(op, n.action, n.payload, n.filter, n.meta)
                    EXCEPT !.ctx = ctx, !.arg = arg]
          IN /\ callerObj' = IF IsObject(arg) THEN n.obj ELSE callerObj
             /\ IF n.err # NoError
                THEN /\ last' = Rejected(c, n.err)
                     /\ UNCHANGED <<inflight, nSerialized, fetchCount>>
                ELSE DispatchFrom(c)
  /\ UNCHANGED <<factory, variant, older, client, scope>>

\* sync(data), lines 187-194.
Sync(data) ==
  /\ nCalls < MaxCalls
  /\ inflight = <<>>
  /\ nCalls' = nCalls + 1
  /\ IF ~IsObject(data)
     THEN /\ last' = Rejected(Call("sync", "", data, ArgUndef, ArgUndef),
                              DataRequired("Synchronization data is required"))
          /\ UNCHANGED <<inflight, nSerialized, fetchCount>>
     ELSE DispatchFrom(Call("sync", "api.sync", data, ArgNull, ArgNull))
  /\ UNCHANGED <<factory, variant, older, client, scope, callerObj>>

\* getFields(namespace, formlet, opt), lines 202-207.
GetFields(namespace, formlet, opt) ==
  LET o == [ObjectOr(opt) EXCEPT !.namespace = namespace, !.formlet = formlet]
  IN /\ nCalls < MaxCalls
     /\ inflight = <<>>
     /\ nCalls' = nCalls + 1
     /\ callerObj' = IF IsObject(opt) THEN o ELSE callerObj
     /\ DispatchFrom([Call("getFields", "formlet.field.find", o, ArgUndef, ArgUndef)
                      EXCEPT !.arg = opt])
     /\ UNCHANGED <<factory, variant, older, client, scope>>


\* instance(name, opt), src/index.js lines 12-25.
Instance(name, opt) ==
  LET o == IF name.t = "object" THEN name.o ELSE opt
      k == IF name.t = "object" THEN "default" ELSE name.s
      r == FormletClient(o, processEnv, made + 1)
      call(state, value, error) == InstanceCall(name, opt, apiCache, state, value, error)
  IN /\ IF name.t = "undefined"
        THEN /\ instanceCall' =
                  call("returned",
                       IF apiCache["default"].t = "undefined" THEN NullValue
                       ELSE apiCache["default"], "")
             /\ UNCHANGED <<apiCache, made>>
        ELSE IF apiCache[k].t # "undefined"
        THEN /\ instanceCall' = call("returned", apiCache[k], "")
             /\ UNCHANGED <<apiCache, made>>
        ELSE IF r.ok
        THEN /\ apiCache' = [apiCache EXCEPT ![k] = r.value]
             /\ made' = made + 1
             /\ instanceCall' = call("returned", r.value, "")
        ELSE /\ instanceCall' = call("threw", NoValue, r.error)
             /\ UNCHANGED <<apiCache, made>>
     /\ instanceCall' # instanceCall
     /\ UNCHANGED <<inflight, last, nCalls, nSerialized, fetchCount, variant, scope,
                    older, client, callerObj, processEnv>>

Next ==
  \/ \E a \in Actions, x \in DispatchArgs : Dispatch(a, x[1], x[2], x[3])
  \/ \E i \in 1..MaxInFlight, s \in Statuses : FetchResolve(i, s)
  \/ \E i \in 1..MaxInFlight, e \in FetchErrors : FetchReject(i, e)
  \/ \E i \in 1..MaxInFlight, b \in Bodies : JsonResolve(i, b)
  \/ \E i \in 1..MaxInFlight, e \in JsonErrors : JsonReject(i, e)

Spec == Init /\ [][Next]_vars

\* An operation with arguments the caller has just built, or with the payload
\* object it passed before.
Operate ==
  \E op \in Operations, ctx \in {client.ctx, scope},
     x \in OpArgs \cup {<<callerObj, ArgUndef, ArgUndef>>} :
    Operation(op, ctx, x[1], x[2], x[3])

Respond ==
  \/ \E s \in OpStatuses : FetchResolve(1, s)
  \/ \E e \in OpErrors : FetchReject(1, e)
  \/ \E b \in OpBodies : JsonResolve(1, b)

\* The client used directly, one call at a time: dispatch with any action and
\* any payload, sync and getFields.
NextDirect ==
  \/ \E a \in AnyActions, x \in DispatchArgs \cup OtherPayloads :
       inflight = <<>> /\ Dispatch(a, x[1], x[2], x[3])
  \/ \E d \in SyncData : Sync(d)
  \/ \E f \in {FormletName, PUndef}, o \in FieldsOpts : GetFields(NsName, f, o)
  \/ \E s \in Statuses : FetchResolve(1, s)
  \/ \E e \in FetchErrors : FetchReject(1, e)
  \/ \E b \in Bodies : JsonResolve(1, b)
  \/ \E e \in JsonErrors : JsonReject(1, e)
SpecDirect == Init /\ [][NextDirect]_vars

\* A client of either revision, the wrappers made from it and kept, and
\* operations called on the client and on the wrappers.
InitScopes == InitCommon /\ variant \in {"entry", "meta"}
NextScopes ==
  \/ \E n \in TwoNames, b \in BOOLEAN : Namespace(n, b)
  \/ \E n \in TwoNames, b \in BOOLEAN : Formlet(n, b)
  \/ Keep
  \/ \E op \in Operations, ctx \in {client.ctx, scope, older}, p \in ScopedPayloads :
       Operation(op, ctx, p, ArgUndef, ArgUndef)
  \/ FetchResolve(1, 200)
  \/ \E b \in OpBodies : JsonResolve(1, b)
SpecScopes == InitScopes /\ [][NextScopes]_vars

\* The operations of the entry revision.
InitEntry == InitCommon /\ variant = "entry"
NextEntry ==
  \/ \E n \in ScopeNames, b \in BOOLEAN : Namespace(n, b)
  \/ Operate
  \/ Respond
SpecEntry == InitEntry /\ [][NextEntry]_vars

\* The operations of the meta revision.
NextMeta ==
  \/ \E n \in ScopeNames, b \in BOOLEAN : Formlet(n, b)
  \/ Operate
  \/ Respond
SpecMeta == Init /\ [][NextMeta]_vars

\* The instance() factory called with any name and options, with and without
\* an API key in the environment.
InitInstance == InitClient /\ variant = "meta" /\ processEnv \in EnvKeys
NextInstance == \E name \in NamesGiven, opt \in OptionsGiven : Instance(name, opt)
SpecInstance == InitInstance /\ [][NextInstance]_vars

(***************************************************************************)
(* Properties of the dispatch pipeline.                                    *)
(***************************************************************************)
Settled == last.pc = "done"
Is2xx(status) == status >= 200 /\ status <= 299
GotBody == Settled /\ last.body.shape # "none"
AllCalls == {inflight[i] : i \in 1..Len(inflight)} \cup {last}

\* C2: the transport has been invoked exactly once per dispatch call whose
\* envelope serialized, whatever became of each call; identical calls are
\* not shared and nothing is retried.
C2_OneRequestPerDispatch == fetchCount = nSerialized

\* C2 witness: two calls with identical arguments in flight, two requests.
C2_Witness ==
  /\ fetchCount = 2
  /\ Len(inflight) = 2
  /\ inflight[1].action = inflight[2].action
  /\ inflight[1].sent = inflight[2].sent
  /\ inflight[1].pc = "json"

\* C3: a 2xx response with a valid JSON body resolves with that body, and
\* the resolved value has no `type` field.
C3_TypeStripped ==
  (GotBody /\ Is2xx(last.statusCode)) =>
     /\ last.state = "resolved"
     /\ last.value = [last.body EXCEPT !.type = Undef]

\* C4: a non-2xx response whose body has top-level code FIELD.INVALID fails
\* with errorCode FIELD.INVALID, namespaceTag FORMLET, fieldErrors the raw
\* `error` value of the body and httpStatus the status of the response.
C4_FieldInvalid ==
  (GotBody /\ ~Is2xx(last.statusCode) /\ last.body.code = Str("FIELD.INVALID")) =>
     /\ last.state = "rejected"
     /\ last.error.code = Str("FIELD.INVALID")
     /\ last.error.ns = "FORMLET"
     /\ last.error.fields = last.body.error
     /\ last.error.statusCode = Num(last.statusCode)

C4_Witness ==
  /\ GotBody
  /\ last.statusCode = 422
  /\ last.body.code = Str("FIELD.INVALID")
  /\ last.error.fields = FieldErrors

\* The response of C5: FIELD.INVALID nested under `error`.
NestedFieldInvalidBody ==
  Body("object", Undef, Undef, Undef, Undef, Undef,
       NestedErr(Str("FIELD.INVALID"), Str("bad"), Undef, Obj("email=required")))
C5_Case == GotBody /\ last.statusCode = 422 /\ last.body = NestedFieldInvalidBody

\* C5 as stated: status 422 with {error: {code: "FIELD.INVALID", message:
\* "bad", error: {email: "required"}}} fails with errorCode FIELD.INVALID,
\* fieldErrors {email: "required"} and httpStatus 422.
C5_NestedAsStated ==
  C5_Case =>
     /\ last.state = "rejected"
     /\ last.error.code = Str("FIELD.INVALID")
     /\ last.error.fields = FieldErrors
     /\ last.error.statusCode = Num(422)

\* C5 amended: that response fails with errorCode FIELD.INVALID and message
\* "bad" taken from the nested error, namespaceTag FORMLET, no fieldErrors,
\* and httpStatus 400 (the nested error has no status).
C5_NestedAmended ==
  C5_Case =>
     /\ last.state = "rejected"
     /\ last.error.code = Str("FIELD.INVALID")
     /\ last.error.message = "bad"
     /\ last.error.ns = "FORMLET"
     /\ last.error.fields = UndefErr
     /\ last.error.statusCode = Num(400)

C5_Witness == C5_Case /\ last.state = "rejected"

\* C6: a timeout reported by the transport fails the call with errorCode
\* GLOBAL.TIMEOUT and message "Request timed out", for every action and
\* whether or not a response status had been received.
C6_Timeout ==
  (Settled /\ last.thrown.type = "request-timeout") =>
     /\ last.state = "rejected"
     /\ last.error.code = Str("GLOBAL.TIMEOUT")
     /\ last.error.message = "Request timed out"

C6_Witness ==
  /\ Settled
  /\ last.thrown = RequestTimeout
  /\ last.statusCode = 200
  /\ last.action = "api.sync"
  /\ last.error.code = Str("GLOBAL.TIMEOUT")

\* C7: a response body that is not valid JSON fails the call with errorCode
\* GLOBAL.RESPONSE and message "Request data could not be processed.", for
\* every status of the response and every action.
C7_InvalidJson ==
  (Settled /\ last.thrown.name = "SyntaxError") =>
     /\ last.state = "rejected"
     /\ last.error.code = Str("GLOBAL.RESPONSE")
     /\ last.error.message = "Request data could not be processed."

C7_Witness ==
  /\ Settled
  /\ last.thrown = JsonSyntaxError
  /\ last.statusCode = 200
  /\ last.error.code = Str("GLOBAL.RESPONSE")

\* C8: a failure that is neither tagged GLOBAL/FORMLET, nor a JSON decoding
\* failure, nor a timeout becomes GLOBAL.ERROR, "Could not contact the
\* server", with httpStatus the status received in that call or 400 when
\* none was; every reclassified error carries the original error as its
\* source and the dispatched action.
Reclassified == Settled /\ last.thrown # NoError /\ ~IsTagged(last.thrown)
C8_Reclassified ==
  /\ (Reclassified /\ last.thrown.name # "SyntaxError"
        /\ last.thrown.type # "request-timeout") =>
        /\ last.state = "rejected"
        /\ last.error.code = Str("GLOBAL.ERROR")
        /\ last.error.message = "Could not contact the server"
        /\ last.error.statusCode =
             Num(IF last.statusCode # 0 THEN last.statusCode ELSE 400)
  /\ Reclassified =>
        /\ last.error.code \in
             {Str("GLOBAL.RESPONSE"), Str("GLOBAL.TIMEOUT"), Str("GLOBAL.ERROR")}
        /\ last.error.source = SourceOf(last.thrown)
        /\ last.error.action = Str(last.action)

C8_Witness ==
  /\ Reclassified
  /\ last.thrown = NetworkError
  /\ last.statusCode = 422
  /\ last.error.statusCode = Num(422)

\* C9: an error already tagged GLOBAL or FORMLET when it reaches the final
\* classification (the FIELD.INVALID error, the backend error) is delivered
\* as it is: nothing is rewritten and no source is attached.
C9_TaggedPassThrough ==
  (Settled /\ IsTagged(last.thrown)) =>
     /\ last.state = "rejected"
     /\ last.error = last.thrown
     /\ last.error.source = NoSource

C9_Witness ==
  /\ Settled
  /\ last.thrown.ns = "FORMLET"
  /\ last.thrown.code = Str("ENTRY.NOT_FOUND")
  /\ last.error.statusCode = Num(404)

\* C10: a call whose payload, filter or meta holds a circular reference
\* fails with DATA.INVALID and nothing is handed to the transport for it.
HasCircular(c) == c.payload.circular \/ c.filter.circular \/ c.meta.circular
C10_NotSerializable ==
  \A c \in AllCalls :
     (c.op = "dispatch" /\ HasCircular(c)) =>
        /\ c.state = "rejected"
        /\ c.error.code = Str("DATA.INVALID")
        /\ c.sent = NoEnvelope
        /\ c.statusCode = 0
        /\ c.body = NoBody

C10_Witness ==
  /\ last.op = "dispatch"
  /\ last.meta.circular
  /\ last.error.code = Str("DATA.INVALID")
  /\ fetchCount = 0
  /\ nCalls = 2

(***************************************************************************)
(* Properties of the operations.                                           *)
(***************************************************************************)
Absent(x) == x.t = "undefined"

\* The payload an operation works on, as the caller passed it: the object
\* under `payload` when the argument has the form {payload, filter, meta}.
Effective(arg) ==
  IF IsObject(arg) /\ arg.payload.t = "object" THEN Inner(arg.payload)
  ELSE ObjectOr(arg)

\* A field the table of required fields names is missing from call c: neither
\* the caller's payload nor the wrapper the operation is bound to supplies it.
MissingRequired(c) ==
  LET p == Effective(c.arg)
      noNamespace == Absent(p.namespace) /\ Absent(c.ctx.ns)
      noFormlet == Absent(p.formlet) /\ Absent(c.ctx.formlet)
  IN CASE c.op = "create" -> noNamespace \/ noFormlet \/ Absent(p.created_by)
       [] c.op = "update" -> noNamespace \/ Absent(p.id) \/ Absent(p.updated_by)
       [] c.op = "delete" ->
            noNamespace \/ Absent(p.id)
              \/ (Absent(p.updated_by) /\ Absent(p.deleted_by))
       [] c.op = "find" -> noNamespace
       [] c.op \in {"read", "history"} -> noNamespace \/ Absent(p.id)
       [] OTHER -> FALSE

\* C1: a call of create, update, read, find, delete or history that misses a
\* required field fails with DATA.REQUIRED, and nothing is handed to the
\* transport for it.
C1_RequiredFields ==
  \A c \in AllCalls :
     MissingRequired(c) =>
        /\ c.state = "rejected"
        /\ c.error.code = Str("DATA.REQUIRED")
        /\ c.sent = NoEnvelope

\* A call of the entry revision that C1 is about.
C1_EntryWitness ==
  /\ variant = "entry"
  /\ last.op = "delete"
  /\ MissingRequired(last)
  /\ ~Absent(last.arg.namespace)
  /\ ~Absent(last.arg.id)
  /\ last.error.code = Str("DATA.REQUIRED")
  /\ fetchCount = 0

\* A call for which an envelope was handed to the transport.
Sent(c) == c.sent # NoEnvelope

\* C11: every envelope handed to the transport, by dispatch called directly
\* or through an operation, has a non-empty `type` and a `payload` that is a
\* mapping, whatever the caller passed.
C11_Envelope ==
  \A c \in AllCalls :
     Sent(c) => (c.sent.type # "" /\ c.sent.payload.t = "object")

\* C12: every request made by an operation called through the wrapper that
\* namespace(ns) returned carries namespace = ns in its payload, whether the
\* caller's payload had no namespace or another one.
C12_NamespaceBound ==
  \A c \in AllCalls :
     (c.ctx.kind = "namespace" /\ Sent(c)) =>
        c.sent.payload.namespace = c.ctx.ns

\* C12 witness: create through the wrapper with a payload naming another
\* namespace; the request carries the wrapper's.
C12_Witness ==
  \E c \in AllCalls :
     /\ c.ctx.kind = "namespace"
     /\ c.op = "create"
     /\ c.arg.namespace = OtherNs
     /\ Sent(c)
     /\ c.sent.payload.namespace = NsName

Names(s) == SelectSeq(Split(s, " "), LAMBDA w : w # <<>>)

\* C14: find sends formlet "_all" when the caller's formlet is absent or no
\* string, and for a string the sequence of the names it holds, in order,
\* none of them empty.
C14_FindFormlet ==
  \A c \in AllCalls :
     (c.op = "find" /\ Sent(c)) =>
        LET f == ObjectOr(c.arg).formlet
            out == c.sent.payload.formlet
        IN IF f.t = "string" THEN out = PArr(Names(f.s))
           ELSE out = PStr(AllFormlets)

\* C15: the wrapper that namespace(name) or formlet(name) returned has all
\* six operations, so that no call of one through the wrapper fails for want
\* of the method.
C15_SixOperations ==
  /\ scope # NoScope => \A op \in Operations : HasMethod(scope, op)
  /\ \A c \in AllCalls : c.state # "threw"

\* C16: making wrappers and calling operations through them leaves the client
\* as it was constructed: the same configuration, no namespace, formlet or
\* includePayload of its own, so that an operation called on the client sends
\* the caller's namespace and formlet and resolves without the request
\* payload; and every wrapper applies the name it was made with, whatever
\* other wrapper was made from the client.
C16_ClientUnchanged ==
  /\ client = TheClient
  /\ \A c \in AllCalls :
        /\ c.ctx.kind = "client" =>
              /\ c.ctx = ClientCtx
              /\ Sent(c) => c.sent.payload.namespace = Effective(c.arg).namespace
              /\ (Sent(c) /\ (variant = "meta" \/ c.op # "find")) =>
                    c.sent.payload.formlet = Effective(c.arg).formlet
              /\ c.state = "resolved" => c.shaped.keys \cap {"payload", "request"} = {}
        /\ (c.ctx.kind = "namespace" /\ Sent(c)) =>
              c.sent.payload.namespace = c.ctx.ns
        /\ (c.ctx.kind = "formlet" /\ Sent(c)) =>
              StartsWith(c.sent.payload.formlet.s, c.ctx.formlet.s)

\* C16 witness: two wrappers with different names, both made with
\* includePayload, are in use, and a second operation, called on the client,
\* has resolved.
C16_Witness ==
  /\ scope # NoScope /\ older # NoScope
  /\ scope.includePayload /\ older.includePayload
  /\ <<scope.ns, scope.formlet>> # <<older.ns, older.formlet>>
  /\ nCalls = 2
  /\ last.ctx.kind = "client"
  /\ last.state = "resolved"

\* C17: create, update, read and delete, on a successful response, resolve to
\* the `result` of the response when includePayload is not set, and to
\* exactly {result, payload}, payload being the payload sent, when it is set;
\* whatever else the body carries.
C17_BareResult ==
  \A c \in AllCalls :
     (c.op \in {"create", "update", "read", "delete"} /\ c.state = "resolved") =>
        IF ~c.ctx.includePayload
        THEN c.shaped.kind = "value" /\ c.shaped.result = c.value.result
        ELSE /\ c.shaped.kind \in {"object", "body"}
             /\ c.shaped.keys = {"result", "payload"}
             /\ c.shaped.result = c.value.result
             /\ c.shaped.payload = c.sent.payload

\* C18: find and history, on a successful response, resolve to an object
\* {result, meta}, also when the body has no meta, with `payload` (the
\* payload sent) added exactly when includePayload is set.
C18_ResultAndMeta ==
  \A c \in AllCalls :
     (c.op \in {"find", "history"} /\ c.state = "resolved") =>
        /\ c.shaped.kind \in {"object", "body"}
        /\ c.shaped.keys =
             {"result", "meta"} \cup (IF c.ctx.includePayload THEN {"payload"} ELSE {})
        /\ c.shaped.result = c.value.result
        /\ c.shaped.meta = c.value.meta
        /\ c.ctx.includePayload => c.shaped.payload = c.sent.payload

\* An error with a non-empty code, an integer status and the action a.
Structured(e, a) ==
  /\ e.code.t = "string" /\ e.code.v # ""
  /\ e.statusCode.t = "number" /\ e.statusCode.v # "NaN"
  /\ e.action = Str(a)

\* C19: every failure of dispatch other than DATA.REQUIRED carries a
\* non-empty errorCode, an integer httpStatus and the action dispatched.
C19_ErrorStructure ==
  \A c \in AllCalls :
     (c.state = "rejected" /\ c.error.code # Str("DATA.REQUIRED")) =>
        Structured(c.error, c.action)

\* The action name each operation is to send.
ConsumedAction(op) ==
  CASE op \in Operations -> "entry." \o op
    [] op = "sync" -> "api.sync"
    [] op = "getFields" -> "formlet.field.find"
    [] OTHER -> ""

\* C20: every envelope an operation sends, on the client or through a
\* wrapper, has as its type the action name of that operation: entry.create,
\* entry.update, entry.read, entry.find, entry.delete, entry.history,
\* api.sync, formlet.field.find.
C20_ActionNames ==
  \A c \in AllCalls :
     (c.op # "dispatch" /\ Sent(c)) => c.sent.type = ConsumedAction(c.op)

\* What a call comes to when it runs alone: its own action, the status of its
\* own response (0 when none arrived), the body decoded from it, or the error
\* its own transport or decoding raised.
Alone(action, resStatus, body, raised) ==
  IF body.shape # "none"
  THEN LET r == OnBody(body, resStatus, action)
       IN IF r.ok
          THEN [state |-> "resolved", value |-> r.value, error |-> NoError]
          ELSE [state |-> "rejected", value |-> NoBody,
                error |-> OnError(r.err, resStatus, action)]
  ELSE [state |-> "rejected", value |-> NoBody,
        error |-> OnError(raised, resStatus, action)]

\* C21: with several dispatch calls in flight on one client and their
\* responses, timeouts and errors arriving in any order, the status recorded
\* for a call is the status of its own response and of no other call, and a
\* call that was sent settles as it would have settled alone: its success
\* body, or its error code, status and action, follow from its own action and
\* its own response.
C21_Independent ==
  /\ \A c \in AllCalls : c.statusCode = c.resStatus
  /\ \A i \in 1..Len(inflight) : inflight[i].state = "pending"
  /\ (Settled /\ Sent(last)) =>
        LET a == Alone(last.action, last.resStatus, last.body, last.thrown)
        IN /\ last.state = a.state
           /\ last.value = a.value
           /\ last.error = a.error

\* A call settles as an error of status 422 while another call with another
\* action, whose response of status 200 arrived before, is still in flight.
C21_Witness ==
  /\ Settled /\ Sent(last)
  /\ last.resStatus = 422
  /\ last.state = "rejected"
  /\ last.error.statusCode = Num(422)
  /\ \E i \in 1..Len(inflight) :
        /\ inflight[i].pc = "json"
        /\ inflight[i].resStatus = 200
        /\ inflight[i].action # last.action

\* The key an instance() call is for and the options it brings; whether the
\* constructor accepts them; the clients a cache holds.
KeyOf(c) == IF c.name.t = "object" THEN "default" ELSE c.name.s
OptionsOf(c) == IF c.name.t = "object" THEN c.name.o ELSE c.opt
Constructs(o) == FormletClient(o, processEnv, 0).ok
ClientsIn(cache) == {cache[k] : k \in {j \in CacheKeys : cache[j].t = "client"}}

\* C22: instance() with no argument returns the cached "default" client or
\* null and creates nothing; a call for a key that has a cached client
\* returns that client whatever options it brings and leaves the cache alone;
\* a call for a key without one, with options the constructor accepts,
\* returns a new client and caches it under the key ("default" for an options
\* object); a call that throws leaves the cache unchanged.
C22_InstanceCache ==
  LET c == instanceCall
      k == KeyOf(c)
  IN c.state # "none" =>
       IF c.name.t = "undefined"
       THEN /\ c.state = "returned"
            /\ c.value = IF c.before["default"].t = "client"
                         THEN c.before["default"] ELSE NullValue
            /\ apiCache = c.before
       ELSE IF c.before[k].t = "client"
       THEN /\ c.state = "returned"
            /\ c.value = c.before[k]
            /\ apiCache = c.before
       ELSE IF Constructs(OptionsOf(c))
       THEN /\ c.state = "returned"
            /\ c.value.t = "client"
            /\ c.value \notin ClientsIn(c.before)
            /\ apiCache = [c.before EXCEPT ![k] = c.value]
       ELSE /\ c.state = "threw"
            /\ apiCache = c.before

\* The call a step makes: in flight when dispatch sent it, settled at once
\* when it was rejected before.
Made == IF Len(inflight') = 1 THEN inflight'[1] ELSE last'

\* A step that calls again the operation whose call settled last, on the same
\* client or wrapper, passing the payload object that call was passed.
CalledAgain(ops) ==
  /\ inflight = <<>> /\ nCalls' = nCalls + 1
  /\ Settled /\ Sent(last) /\ IsObject(last.arg)
  /\ last.op \in ops
  /\ Made.op = last.op /\ Made.ctx = last.ctx /\ Made.arg = callerObj

\* The repeated call is sent with the payload the earlier call was sent with.
SentAsBefore ==
  /\ Len(inflight') = 1
  /\ inflight'[1].sent.payload = last.sent.payload

\* C23: an operation called again with the payload object of its earlier call
\* sends the payload the earlier call sent: find sends the same formlet
\* names, delete the same updated_by; what the earlier call wrote into the
\* caller's object does not change what the later call sends.
C23_SamePayloadAgain == [][CalledAgain(Operations) => SentAsBefore]_vars

====
